---- MODULE Spec2Model ----
(***************************************************************************)
(* Model of the Homeopathic_automation AI agent (src/ai_agent.py):         *)
(*   - the module-level singleton (_agent_instance, _agent_initialized),   *)
(*     get_homeopathic_agent and reset_agent;                              *)
(*   - HomeopathicAIAgent.load_knowledge_base;                             *)
(*   - the text pipeline of analyze_patient_case, on strings modelled as   *)
(*     sequences of one-character strings, as one operator and as one      *)
(*     action per step of its try block.                                   *)
(*                                                                         *)
(* get_homeopathic_agent is a coroutine whose only await is on             *)
(* load_knowledge_base (line 435).  A call is modelled as two steps, up to *)
(* that await and after it; other callers and reset_agent may run between  *)
(* the two.  load_knowledge_base awaits nothing itself, so callers that    *)
(* share one event loop do not overlap; callers on different threads or    *)
(* loops do, and the await is where the model places the overlap.          *)
(***************************************************************************)
EXTENDS Integers, Sequences, FiniteSets, TLC

\* ------------------------------------------------------------------ bounds
\* number of callers that may be inside get_homeopathic_agent at once
NumCallers == 2
\* HomeopathicAIAgent objects constructed in one behaviour
MaxInstances == 2
\* reset_agent calls in one behaviour
MaxResets == 1
\* lines of a patient summary
MaxPatientLines == 3
\* lines of a narrative handed to _extract_remedies
MaxNarrativeLines == 7
\* hash seeds a process of the service can start with
NumHashSeeds == 2
\* lines of a summary that names remedies
MaxRemedyLines == 6

Callers == 1..NumCallers
HashSeeds == 1..NumHashSeeds
Instances == 1..MaxInstances

\* Python's None as the value of _agent_instance
None == 0

VARIABLES
    _agent_instance,     \* src/ai_agent.py:411, None or an instance id
    _agent_initialized,  \* src/ai_agent.py:412
    pc,                  \* per caller: "idle", or "load" (inside the await of line 435)
    loading,             \* per caller: the instance whose load_knowledge_base it awaits
    ret,                 \* per caller: outcome of its latest get_homeopathic_agent call
    constructed,         \* HomeopathicAIAgent() constructions that completed
    loads,               \* load_knowledge_base runs started
    kb,                  \* per instance: what its load_knowledge_base did
    resets,              \* reset_agent calls so far
    report,              \* the latest analyze_patient_case call and its outcome
    narrative,           \* the lines of the text handed to _extract_remedies
    extracted,           \* what that _extract_remedies call returned
    summary,             \* src/main.py:333, the summary handed to the agent
    hash_seed,           \* the str hash seed of the running process
    call,                \* the analyze_patient_case call in progress, by step
    previous,            \* the report of an earlier call that went well
    calls,               \* per caller: its analyze_patient_case call, by step
    inputs,              \* per caller: the summary of that call
    global_agent,        \* src/main.py:30, the agent the HTTP layer holds
    server,              \* the HTTP server: "down", "startup" or "serving"
    served               \* per caller: the agent its latest request ended with

httpVars == <<global_agent, server, served>>

lifecycleVars == <<_agent_instance, _agent_initialized, pc, loading, ret,
                   constructed, loads, kb, resets, global_agent, server,
                   served>>

concVars == <<calls, inputs>>

caseVars == <<summary, hash_seed, call, previous>>

textVars == <<report, narrative, extracted, summary, hash_seed, call, previous,
             calls, inputs>>

vars == <<_agent_instance, _agent_initialized, pc, loading, ret,
          constructed, loads, kb, resets, report, narrative, extracted,
          summary, hash_seed, call, previous, calls, inputs,
          global_agent, server, served>>

\* outcome of a get_homeopathic_agent call, as the caller sees it
NoCall == [kind |-> "none", value |-> None, init |-> FALSE, success |-> FALSE]
Pending == [kind |-> "pending", value |-> None, init |-> TRUE, success |-> FALSE]
Raised == [kind |-> "raised", value |-> None, init |-> TRUE, success |-> FALSE]
Returned(inst, didInit, ok) ==
    [kind |-> "returned", value |-> inst, init |-> didInit, success |-> ok]

\* =================================================================== text
\* A Python str is a sequence of one-character strings.

\* the characters str.strip() removes
Whitespace == {" ", "\n", "\t", "\r", "\f"}

LowerLetters ==
    <<"a","b","c","d","e","f","g","h","i","j","k","l","m",
      "n","o","p","q","r","s","t","u","v","w","x","y","z">>
UpperLetters ==
    <<"A","B","C","D","E","F","G","H","I","J","K","L","M",
      "N","O","P","Q","R","S","T","U","V","W","X","Y","Z">>

UpperMap == [ch \in {LowerLetters[i] : i \in 1..26} |->
                UpperLetters[CHOOSE i \in 1..26 : LowerLetters[i] = ch]]
LowerMap == [ch \in {UpperLetters[i] : i \in 1..26} |->
                LowerLetters[CHOOSE i \in 1..26 : UpperLetters[i] = ch]]

\* str.upper() and str.lower() on ASCII text
upper(s) == [i \in 1..Len(s) |-> IF s[i] \in DOMAIN UpperMap THEN UpperMap[s[i]] ELSE s[i]]
lower(s) == [i \in 1..Len(s) |-> IF s[i] \in DOMAIN LowerMap THEN LowerMap[s[i]] ELSE s[i]]

\* Python's "sub in s" on strings
Contains(sub, s) ==
    \E i \in 0..(Len(s) - Len(sub)) :
        \A j \in 1..Len(sub) : s[i + j] = sub[j]

\* str.strip(): leading and trailing whitespace removed
strip(s) ==
    IF \A i \in 1..Len(s) : s[i] \in Whitespace
    THEN << >>
    ELSE LET first == CHOOSE i \in 1..Len(s) :
                         /\ s[i] \notin Whitespace
                         /\ \A k \in 1..(i - 1) : s[k] \in Whitespace
             last == CHOOSE i \in 1..Len(s) :
                         /\ s[i] \notin Whitespace
                         /\ \A k \in (i + 1)..Len(s) : s[k] \in Whitespace
         IN  SubSeq(s, first, last)

\* str.split(sep) for a one-character separator, from position start on
RECURSIVE SplitFrom(_, _, _)
SplitFrom(s, sep, start) ==
    IF \E j \in start..Len(s) : s[j] = sep
    THEN LET j == CHOOSE j \in start..Len(s) :
                     /\ s[j] = sep
                     /\ \A k \in start..(j - 1) : s[k] # sep
         IN  <<SubSeq(s, start, j - 1)>> \o SplitFrom(s, sep, j + 1)
    ELSE <<SubSeq(s, start, Len(s))>>

split(s, sep) == SplitFrom(s, sep, 1)

\* sep.join(parts)
RECURSIVE join(_, _)
join(sep, parts) ==
    IF parts = << >> THEN << >>
    ELSE IF Len(parts) = 1 THEN parts[1]
    ELSE parts[1] \o sep \o join(sep, Tail(parts))

\* s[:n] on a list
Prefix(s, n) == SubSeq(s, 1, IF Len(s) < n THEN Len(s) ELSE n)

\* ============================================ HomeopathicAIAgent, the text
\* src/ai_agent.py:188
Potencies ==
    <<
       <<"3","0","C">>,
       <<"2","0","0","C">>,
       <<"1","M">>,
       <<"1","0","M">>,
       <<"L","M">>
    >>

\* src/ai_agent.py:189
RemedyNames ==
    <<
       <<"S","u","l","p","h","u","r">>,
       <<"N","u","x">>,
       <<"A","r","s","e","n","i","c","u","m">>,
       <<"L","y","c","o","p","o","d","i","u","m">>,
       <<"P","u","l","s","a","t","i","l","l","a">>
    >>

\* src/ai_agent.py:194-198
FallbackRemedies ==
    <<
       <<"C","o","n","s","t","i","t","u","t","i","o","n","a","l"," ","r","e","m","e","d","y"," ","t","o"," ","b","e"," ","d","e","t","e","r","m","i","n","e","d"," ","b","a","s","e","d"," ","o","n"," ","d","e","t","a","i","l","e","d"," ","a","n","a","l","y","s","i","s">>,
       <<"A","c","u","t","e"," ","r","e","m","e","d","y"," ","f","o","r"," ","i","m","m","e","d","i","a","t","e"," ","s","y","m","p","t","o","m"," ","r","e","l","i","e","f">>,
       <<"F","o","l","l","o","w","-","u","p"," ","c","o","n","s","u","l","t","a","t","i","o","n"," ","r","e","c","o","m","m","e","n","d","e","d">>
    >>

\* src/ai_agent.py:209-213
symptom_keywords ==
    <<
       <<"h","e","a","d","a","c","h","e">>,
       <<"p","a","i","n">>,
       <<"f","e","v","e","r">>,
       <<"c","o","u","g","h">>,
       <<"n","a","u","s","e","a">>,
       <<"v","o","m","i","t","i","n","g">>,
       <<"d","i","a","r","r","h","e","a">>,
       <<"c","o","n","s","t","i","p","a","t","i","o","n">>,
       <<"a","n","x","i","e","t","y">>,
       <<"d","e","p","r","e","s","s","i","o","n">>,
       <<"i","n","s","o","m","n","i","a">>,
       <<"f","a","t","i","g","u","e">>,
       <<"w","e","a","k","n","e","s","s">>,
       <<"d","i","z","z","i","n","e","s","s">>,
       <<"r","a","s","h">>,
       <<"i","n","f","l","a","m","m","a","t","i","o","n">>
    >>

\* src/ai_agent.py:288-294
follow_ups ==
    <<
       <<"M","o","n","i","t","o","r"," ","p","a","t","i","e","n","t"," ","r","e","s","p","o","n","s","e"," ","f","o","r"," ","2","-","4"," ","w","e","e","k","s">>,
       <<"A","v","o","i","d"," ","a","n","t","i","d","o","t","i","n","g"," ","s","u","b","s","t","a","n","c","e","s"," ","(","c","o","f","f","e","e",","," ","m","i","n","t",","," ","c","a","m","p","h","o","r",")">>,
       <<"S","c","h","e","d","u","l","e"," ","f","o","l","l","o","w","-","u","p"," ","c","o","n","s","u","l","t","a","t","i","o","n">>,
       <<"K","e","e","p"," ","s","y","m","p","t","o","m"," ","d","i","a","r","y">>,
       <<"R","e","p","o","r","t"," ","a","n","y"," ","n","e","w"," ","s","y","m","p","t","o","m","s"," ","o","r"," ","c","h","a","n","g","e","s">>
    >>

\* src/ai_agent.py:226
NoSymptomsDoc ==
    <<"N","o"," ","s","p","e","c","i","f","i","c"," ","s","y","m","p","t",
      "o","m","s"," ","i","d","e","n","t","i","f","i","e","d"," ","f","o",
      "r"," ","s","e","a","r","c","h">>

\* src/ai_agent.py:234
FoundPrefix ==
    <<"F","o","u","n","d"," ","i","n","f","o","r","m","a","t","i","o","n",
      " ","r","e","l","a","t","e","d"," ","t","o",":"," ">>

\* src/ai_agent.py:235-237
FixedDocs ==
    <<
       <<"B","a","s","e","d"," ","o","n"," ","h","o","m","e","o","p","a","t","h","i","c"," ","p","r","i","n","c","i","p","l","e","s",","," ","c","o","n","s","i","d","e","r"," ","c","o","n","s","t","i","t","u","t","i","o","n","a","l"," ","r","e","m","e","d","i","e","s">>,
       <<"S","y","m","p","t","o","m"," ","t","o","t","a","l","i","t","y"," ","s","u","g","g","e","s","t","s"," ","l","o","o","k","i","n","g"," ","a","t"," ","m","e","n","t","a","l","/","e","m","o","t","i","o","n","a","l"," ","s","t","a","t","e">>,
       <<"P","h","y","s","i","c","a","l"," ","s","y","m","p","t","o","m","s"," ","s","h","o","u","l","d"," ","b","e"," ","c","o","n","s","i","d","e","r","e","d"," ","w","i","t","h"," ","m","o","d","a","l","i","t","i","e","s">>
    >>

\* src/ai_agent.py:247-250, the f-string up to {patient_summary}
TemplateHead ==
    <<"\n","H","O","M","E","O","P","A","T","H","I","C"," ","C","A","S","E",
      " ","A","N","A","L","Y","S","I","S","\n","\n","P","A","T","I","E","N",
      "T"," ","S","U","M","M","A","R","Y",":","\n">>

\* src/ai_agent.py:251-253, between the two substitutions
TemplateMid ==
    <<"\n","\n","K","N","O","W","L","E","D","G","E"," ","B","A","S","E"," ",
      "F","I","N","D","I","N","G","S",":","\n">>

\* src/ai_agent.py:254-281, after the joined documents
TemplateTail ==
    <<"\n","\n","C","O","N","S","T","I","T","U","T","I","O","N","A","L"," ",
      "A","N","A","L","Y","S","I","S",":","\n","B","a","s","e","d"," ","o",
      "n"," ","t","h","e"," ","s","y","m","p","t","o","m"," ","p","i","c",
      "t","u","r","e",","," ","t","h","i","s"," ","c","a","s","e"," ","s",
      "u","g","g","e","s","t","s"," ","a"," ","n","e","e","d"," ","f","o",
      "r"," ","c","o","n","s","t","i","t","u","t","i","o","n","a","l"," ",
      "t","r","e","a","t","m","e","n","t",".","\n","T","h","e"," ","t","o",
      "t","a","l","i","t","y"," ","o","f"," ","s","y","m","p","t","o","m",
      "s"," ","s","h","o","u","l","d"," ","g","u","i","d","e"," ","r","e",
      "m","e","d","y"," ","s","e","l","e","c","t","i","o","n",".","\n","\n",
      "R","E","C","O","M","M","E","N","D","E","D"," ","A","P","P","R","O",
      "A","C","H",":","\n","1","."," ","C","o","n","s","i","d","e","r"," ",
      "t","h","e"," ","m","e","n","t","a","l","/","e","m","o","t","i","o",
      "n","a","l"," ","s","t","a","t","e"," ","a","s"," ","p","r","i","m",
      "a","r","y","\n","2","."," ","L","o","o","k"," ","a","t"," ","p","h",
      "y","s","i","c","a","l"," ","s","y","m","p","t","o","m","s"," ","w",
      "i","t","h"," ","t","h","e","i","r"," ","m","o","d","a","l","i","t",
      "i","e","s","\n","3","."," ","A","s","s","e","s","s"," ","c","o","n",
      "s","t","i","t","u","t","i","o","n","a","l"," ","t","y","p","e"," ",
      "a","n","d"," ","m","i","a","s","m","a","t","i","c"," ","b","a","c",
      "k","g","r","o","u","n","d","\n","4","."," ","S","e","l","e","c","t",
      " ","r","e","m","e","d","y"," ","b","a","s","e","d"," ","o","n"," ",
      "s","i","m","i","l","i","m","u","m"," ","p","r","i","n","c","i","p",
      "l","e","\n","\n","S","U","G","G","E","S","T","E","D"," ","R","E","M",
      "E","D","I","E","S",":","\n","-"," ","A","r","s","e","n","i","c","u",
      "m"," ","A","l","b","u","m"," ","3","0","C"," ","-"," ","f","o","r",
      " ","a","n","x","i","e","t","y"," ","w","i","t","h"," ","r","e","s",
      "t","l","e","s","s","n","e","s","s","\n","-"," ","N","u","x"," ","V",
      "o","m","i","c","a"," ","3","0","C"," ","-"," ","f","o","r"," ","d",
      "i","g","e","s","t","i","v","e"," ","i","s","s","u","e","s"," ","w",
      "i","t","h"," ","i","r","r","i","t","a","b","i","l","i","t","y","\n",
      "-"," ","P","u","l","s","a","t","i","l","l","a"," ","3","0","C"," ",
      "-"," ","f","o","r"," ","c","h","a","n","g","e","a","b","l","e"," ",
      "s","y","m","p","t","o","m","s"," ","a","n","d"," ","m","i","l","d",
      " ","d","i","s","p","o","s","i","t","i","o","n","\n","-"," ","S","u",
      "l","p","h","u","r"," ","2","0","0","C"," ","-"," ","f","o","r"," ",
      "c","o","n","s","t","i","t","u","t","i","o","n","a","l"," ","t","r",
      "e","a","t","m","e","n","t","\n","-"," ","L","y","c","o","p","o","d",
      "i","u","m"," ","3","0","C"," ","-"," ","f","o","r"," ","d","i","g",
      "e","s","t","i","v","e"," ","a","n","d"," ","c","o","n","f","i","d",
      "e","n","c","e"," ","i","s","s","u","e","s","\n","\n","F","O","L","L",
      "O","W","-","U","P"," ","R","E","C","O","M","M","E","N","D","A","T",
      "I","O","N","S",":","\n","-"," ","M","o","n","i","t","o","r"," ","r",
      "e","s","p","o","n","s","e"," ","f","o","r"," ","2","-","4"," ","w",
      "e","e","k","s","\n","-"," ","A","v","o","i","d"," ","a","n","t","i",
      "d","o","t","i","n","g"," ","s","u","b","s","t","a","n","c","e","s",
      "\n","-"," ","K","e","e","p"," ","s","y","m","p","t","o","m"," ","d",
      "i","a","r","y","\n","-"," ","S","c","h","e","d","u","l","e"," ","f",
      "o","l","l","o","w","-","u","p"," ","c","o","n","s","u","l","t","a",
      "t","i","o","n","\n","\n","N","o","t","e",":"," ","T","h","i","s"," ",
      "a","n","a","l","y","s","i","s"," ","i","s"," ","b","a","s","e","d",
      " ","o","n"," ","k","n","o","w","l","e","d","g","e"," ","b","a","s",
      "e"," ","s","e","a","r","c","h","."," ","F","o","r"," ","c","o","m",
      "p","r","e","h","e","n","s","i","v","e"," ","t","r","e","a","t","m",
      "e","n","t",",","\n","c","o","n","s","u","l","t"," ","w","i","t","h",
      " ","a"," ","q","u","a","l","i","f","i","e","d"," ","h","o","m","e",
      "o","p","a","t","h","i","c"," ","p","r","a","c","t","i","t","i","o",
      "n","e","r",".","\n"," "," "," "," "," "," "," "," ">>

\* src/ai_agent.py:174
ErrorPrefix ==
    <<"E","r","r","o","r"," ","o","c","c","u","r","r","e","d"," ","d","u",
      "r","i","n","g"," ","a","n","a","l","y","s","i","s",":"," ">>

\* src/ai_agent.py:164
Confidence75 ==
    <<"7","5","%">>

\* src/ai_agent.py:176
Confidence0 ==
    <<"0","%">>

\* src/ai_agent.py:200, the length of the slice remedies[:5]
MaxRemedies == 5

\* src/ai_agent.py:188-189, the two tests applied to one line
IsRemedyLine(line) ==
    /\ LET up == upper(line)
       IN  \E p \in 1..Len(Potencies) : Contains(Potencies[p], up)
    /\ \E r \in 1..Len(RemedyNames) : Contains(RemedyNames[r], line)

\* _extract_remedies with the slice of line 200 taken from the end
_extract_remedies_lastFive(analysis_text) ==
    LET lines == split(analysis_text, "\n")
        matching == SelectSeq(lines, IsRemedyLine)
        remedies == IF matching = << >>
                    THEN FallbackRemedies
                    ELSE [i \in 1..Len(matching) |-> strip(matching[i])]
    IN  SubSeq(remedies,
               IF Len(remedies) > MaxRemedies
               THEN Len(remedies) - MaxRemedies + 1 ELSE 1,
               Len(remedies))

\* _extract_remedies without the fallback of lines 193-198
_extract_remedies_noFallback(analysis_text) ==
    LET lines == split(analysis_text, "\n")
        matching == SelectSeq(lines, IsRemedyLine)
    IN  Prefix([i \in 1..Len(matching) |-> strip(matching[i])], MaxRemedies)

\* src/ai_agent.py:180-200
_extract_remedies(analysis_text) ==
    LET lines == split(analysis_text, "\n")
        matching == SelectSeq(lines, IsRemedyLine)
        remedies == IF matching = << >>
                    THEN FallbackRemedies
                    ELSE [i \in 1..Len(matching) |-> strip(matching[i])]
    IN  Prefix(remedies, MaxRemedies)

\* src/ai_agent.py:206-218, the keywords (by position in symptom_keywords)
\* that occur in some line of the lowercased text
MatchedKeywords(patient_summary) ==
    LET lines == split(lower(patient_summary), "\n")
    IN  {k \in 1..Len(symptom_keywords) :
            \E i \in 1..Len(lines) : Contains(symptom_keywords[k], lines[i])}

\* the lists a Python set of S can be turned into
Orderings(S) ==
    {o \in [1..Cardinality(S) -> S] :
        \A i, j \in 1..Cardinality(S) : i # j => o[i] # o[j]}

\* src/ai_agent.py:202-220.  list(set(symptoms)) fixes no order, so the
\* operator gives the set of lists the call can return.
_extract_symptoms(patient_summary) ==
    {[i \in 1..Len(o) |-> symptom_keywords[o[i]]] :
        o \in Orderings(MatchedKeywords(patient_summary))}

\* _search_knowledge_base without the test of lines 225-226
_search_knowledge_base_noEmptyCheck(symptoms) ==
    <<FoundPrefix \o join(<<",", " ">>, symptoms)>> \o FixedDocs

\* src/ai_agent.py:222-243
_search_knowledge_base(symptoms) ==
    IF symptoms = << >>
    THEN <<NoSymptomsDoc>>
    ELSE <<FoundPrefix \o join(<<",", " ">>, symptoms)>> \o FixedDocs

\* src/ai_agent.py:267-271: the lines of the template that hold a potency and a
\* remedy name, stripped, in template order
TemplateRemedyLines ==
    <<
       <<"-"," ","A","r","s","e","n","i","c","u","m"," ","A","l","b","u",
         "m"," ","3","0","C"," ","-"," ","f","o","r"," ","a","n","x","i",
         "e","t","y"," ","w","i","t","h"," ","r","e","s","t","l","e","s",
         "s","n","e","s","s">>,
       <<"-"," ","N","u","x"," ","V","o","m","i","c","a"," ","3","0","C",
         " ","-"," ","f","o","r"," ","d","i","g","e","s","t","i","v","e",
         " ","i","s","s","u","e","s"," ","w","i","t","h"," ","i","r","r",
         "i","t","a","b","i","l","i","t","y">>,
       <<"-"," ","P","u","l","s","a","t","i","l","l","a"," ","3","0","C",
         " ","-"," ","f","o","r"," ","c","h","a","n","g","e","a","b","l",
         "e"," ","s","y","m","p","t","o","m","s"," ","a","n","d"," ","m",
         "i","l","d"," ","d","i","s","p","o","s","i","t","i","o","n">>,
       <<"-"," ","S","u","l","p","h","u","r"," ","2","0","0","C"," ","-",
         " ","f","o","r"," ","c","o","n","s","t","i","t","u","t","i","o",
         "n","a","l"," ","t","r","e","a","t","m","e","n","t">>,
       <<"-"," ","L","y","c","o","p","o","d","i","u","m"," ","3","0","C",
         " ","-"," ","f","o","r"," ","d","i","g","e","s","t","i","v","e",
         " ","a","n","d"," ","c","o","n","f","i","d","e","n","c","e"," ",
         "i","s","s","u","e","s">>
    >>

\* _create_analysis_from_docs ending after the findings: no CONSTITUTIONAL
\* ANALYSIS, RECOMMENDED APPROACH, SUGGESTED REMEDIES and FOLLOW-UP sections
_create_analysis_from_docs_noTail(patient_summary, relevant_docs) ==
    strip(TemplateHead
          \o patient_summary
          \o TemplateMid
          \o join(<<"\n">>, [i \in 1..Len(relevant_docs) |->
                                <<"-", " ">> \o relevant_docs[i]]))

\* _create_analysis_from_docs with the patient summary put after the
\* template instead of under PATIENT SUMMARY
_create_analysis_from_docs_summaryLast(patient_summary, relevant_docs) ==
    strip(TemplateHead
          \o TemplateMid
          \o join(<<"\n">>, [i \in 1..Len(relevant_docs) |->
                                <<"-", " ">> \o relevant_docs[i]])
          \o TemplateTail
          \o patient_summary)

\* src/ai_agent.py:245-283
_create_analysis_from_docs(patient_summary, relevant_docs) ==
    strip(TemplateHead
          \o patient_summary
          \o TemplateMid
          \o join(<<"\n">>, [i \in 1..Len(relevant_docs) |->
                                <<"-", " ">> \o relevant_docs[i]])
          \o TemplateTail)

\* a line of the narrative written as a list item
IsListItem(line) == Len(line) >= 2 /\ line[1] = "-" /\ line[2] = " "

\* _extract_follow_up reading the list items of the narrative
_extract_follow_up_fromText(analysis_text) ==
    SelectSeq(split(analysis_text, "\n"), IsListItem)

\* src/ai_agent.py:285-295
_extract_follow_up(analysis_text) == follow_ups

\* an exception raised inside the try block of analyze_patient_case: none,
\* or its str()
NoFault == [raised |-> FALSE, message |-> << >>]
Faults ==
    {NoFault,
     [raised |-> TRUE, message |-> <<"f","a","u","l","t">>]}

\* the except clause of analyze_patient_case letting the exception through
analyze_except_reraises(message) ==
    [propagated |-> TRUE,
     result |-> [status |-> "none", ai_analysis |-> << >>,
                 recommended_remedies |-> << >>, confidence_score |-> << >>,
                 follow_up_recommendations |-> << >>]]

\* the except clause of analyze_patient_case with a fixed narrative
analyze_except_noMessage(message) ==
    [propagated |-> FALSE,
     result |-> [status |-> "error",
                 ai_analysis |-> ErrorPrefix,
                 recommended_remedies |-> << >>,
                 confidence_score |-> Confidence0,
                 follow_up_recommendations |-> << >>]]

\* src/ai_agent.py:170-178, the except clause of analyze_patient_case
analyze_except(message) ==
    [propagated |-> FALSE,
     result |-> [status |-> "error",
                 ai_analysis |-> ErrorPrefix \o message,
                 recommended_remedies |-> << >>,
                 confidence_score |-> Confidence0,
                 follow_up_recommendations |-> << >>]]

\* the exceptions among them
RaisedFaults == {f \in Faults : f.raised}

\* src/ai_agent.py:141-178, for one of the lists _extract_symptoms can return
analyze_patient_case(patient_summary, symptoms, fault) ==
    IF fault.raised
    THEN analyze_except(fault.message).result
    ELSE LET relevant_docs == _search_knowledge_base(symptoms)
             analysis_text ==
                 _create_analysis_from_docs(patient_summary, relevant_docs)
         IN  [status |-> "success",
              ai_analysis |-> analysis_text,
              recommended_remedies |-> _extract_remedies(analysis_text),
              confidence_score |-> Confidence75,
              follow_up_recommendations |-> _extract_follow_up(analysis_text)]

\* ----------------------------------------------------------------- inputs
\* all sequences over S of length at most n
RECURSIVE SeqsUpTo(_, _)
SeqsUpTo(S, n) ==
    IF n = 0 THEN {<< >>}
    ELSE LET shorter == SeqsUpTo(S, n - 1)
         IN  shorter \cup {Append(q, x) : q \in {r \in shorter : Len(r) = n - 1},
                                          x \in S}

\* lines a patient summary is made of
PatientPool ==
    <<
       <<"N","u","x"," ","1","M">>,
       <<" ","N","u","x"," ","1","M">>,
       <<"C","h","r","o","n","i","c"," ","h","e","a","d","a","c","h","e","s",
         " ","a","n","d"," ","f","a","t","i","g","u","e">>
    >>

\* patient summaries: at most MaxPatientLines pool lines joined by newlines
PatientTexts ==
    {join(<<"\n">>, [i \in 1..Len(ls) |-> PatientPool[ls[i]]]) :
        ls \in SeqsUpTo(1..Len(PatientPool), MaxPatientLines)}

\* the summary used where the agent's lifecycle is explored
SampleTexts == {PatientPool[3]}

\* lines a narrative handed to _extract_remedies is made of: six different
\* lines with a potency and a remedy name, and one whose remedy name is in
\* lower case
NarrativePool ==
    <<
       <<"N","u","x"," ","1","M">>,
       <<" ","N","u","x"," ","1","M">>,
       <<"N","u","x"," ","l","m">>,
       <<"N","u","x"," ","3","0","C">>,
       <<"c","a","l","m"," ","N","u","x">>,
       <<"N","u","x"," ","2","0","0","C">>,
       <<"n","u","x"," ","1","M">>
    >>

\* all sequences over S of length at most n that use no element twice
RECURSIVE DistinctSeqsUpTo(_, _)
DistinctSeqsUpTo(S, n) ==
    IF n = 0 THEN {<< >>}
    ELSE LET shorter == DistinctSeqsUpTo(S, n - 1)
         IN  shorter \cup
             UNION {{Append(q, x) : x \in S \ {q[i] : i \in 1..Len(q)}} :
                       q \in {r \in shorter : Len(r) = n - 1}}

\* narratives as lists of lines: at most n pool lines, each used at most
\* once, in any order
Narratives(n) ==
    {[i \in 1..Len(ls) |-> NarrativePool[ls[i]]] :
        ls \in DistinctSeqsUpTo(1..Len(NarrativePool), n)}

\* every report analyze_patient_case can return for a summary and a fault,
\* tabulated
analysis_reports ==
    [t \in PatientTexts |->
        [f \in Faults |->
            {analyze_patient_case(t, s, f) : s \in _extract_symptoms(t)}]]

\* ------------------------------------------ analyze_patient_case by steps
\* src/ai_agent.py:243
SearchErrorPrefix ==
    <<"E","r","r","o","r"," ","s","e","a","r","c","h","i","n","g"," ","k",
      "n","o","w","l","e","d","g","e"," ","b","a","s","e",":"," ">>

\* str() of the AttributeError that patient_summary.lower() raises at
\* src/ai_agent.py:206 when patient_summary is None
NoLowerMessage ==
    <<"'","N","o","n","e","T","y","p","e","'"," ","o","b","j","e","c","t",
      " ","h","a","s"," ","n","o"," ","a","t","t","r","i","b","u","t","e",
      " ","'","l","o","w","e","r","'">>

\* lines a case summary is made of
CasePool ==
    <<
       <<"C","h","r","o","n","i","c"," ","h","e","a","d","a","c","h","e",
         "s"," ","a","n","d"," ","f","a","t","i","g","u","e">>,
       <<"F","E","V","E","R"," ","h","e","a","d">>,
       <<"a","c","h","e">>
    >>

\* case summaries as text: at most n pool lines joined by newlines
CaseTexts(n) ==
    {join(<<"\n">>, [i \in 1..Len(ls) |-> CasePool[ls[i]]]) :
        ls \in SeqsUpTo(1..Len(CasePool), n)}

\* src/main.py:333, data.get("summary", ""): a JSON string, or a JSON value
\* that is no string (null gives None)
StrSummary(t) == [is_str |-> TRUE, text |-> t]
NoneSummary == [is_str |-> FALSE, text |-> << >>]

\* src/ai_agent.py:215-218 for one line: the keywords (by position) the
\* inner loop appends, in lexicon order
RECURSIVE KeywordsIn(_, _)
KeywordsIn(line, k) ==
    IF k > Len(symptom_keywords) THEN << >>
    ELSE (IF Contains(symptom_keywords[k], line) THEN <<k>> ELSE << >>)
         \o KeywordsIn(line, k + 1)

\* src/ai_agent.py:205-218, the list symptoms before line 220: one entry per
\* line and keyword found in it, so a keyword found in two lines is in twice
RECURSIVE AppendedFrom(_, _)
AppendedFrom(lines, i) ==
    IF i > Len(lines) THEN << >>
    ELSE KeywordsIn(lines[i], 1) \o AppendedFrom(lines, i + 1)

symptoms_appended(patient_summary) ==
    AppendedFrom(split(lower(patient_summary), "\n"), 1)

\* src/ai_agent.py:220, set(symptoms): Python iterates a set of str in the
\* order of the hashes, which the process's hash seed fixes at start.  The
\* slot of keyword k under a seed; 17 is the first prime above the 16
\* keywords, so that two keywords never share a slot.
HashOf(k, seed) == (k * (2 * seed - 1)) % 17

\* list(set(symptoms)) in a process with this seed
set_to_list(S, seed) ==
    CHOOSE o \in Orderings(S) :
        \A i, j \in 1..Cardinality(S) :
            i < j => HashOf(o[i], seed) < HashOf(o[j], seed)

\* _extract_symptoms with line 220 returning the list as appended
extract_symptoms_in_noSet(seed, patient_summary) ==
    LET appended == symptoms_appended(patient_summary)
    IN  [i \in 1..Len(appended) |-> symptom_keywords[appended[i]]]

\* src/ai_agent.py:202-220 in a process with this seed
extract_symptoms_in(seed, patient_summary) ==
    LET appended == symptoms_appended(patient_summary)
        o == set_to_list({appended[i] : i \in 1..Len(appended)}, seed)
    IN  [i \in 1..Len(o) |-> symptom_keywords[o[i]]]

\* src/ai_agent.py:225-229: whether a search query is built, and the query
search_query(symptoms) ==
    IF symptoms = << >>
    THEN [built |-> FALSE, text |-> << >>]
    ELSE [built |-> TRUE, text |-> join(<<" ">>, symptoms)]

\* src/ai_agent.py:242-243, the except clause of _search_knowledge_base
search_except(message) == <<SearchErrorPrefix \o message>>

\* ============================================================== lifecycle
\* load_knowledge_base raising on an empty directory instead of returning
\* False at line 126
load_knowledge_base_raisesOnEmpty(corpus, fault) ==
    IF corpus = "empty"
    THEN [raised |-> TRUE, value |-> FALSE, kb |-> "empty"]
    ELSE IF fault
         THEN [raised |-> FALSE, value |-> FALSE, kb |-> "failed"]
         ELSE [raised |-> FALSE, value |-> TRUE, kb |-> "loaded"]

\* ------------------------------------------------- src/ai_agent.py:116-139
\* load_knowledge_base: corpus is what glob("*.pdf") finds, fault is whether
\* knowledge_base.load() raises.  The except clause turns every exception
\* into the return value False, so raised is FALSE in every case.
load_knowledge_base(corpus, fault) ==
    IF corpus = "empty"
    THEN [raised |-> FALSE, value |-> FALSE, kb |-> "empty"]
    ELSE IF fault
         THEN [raised |-> FALSE, value |-> FALSE, kb |-> "failed"]
         ELSE [raised |-> FALSE, value |-> TRUE, kb |-> "loaded"]

\* ------------------------------------------------- src/ai_agent.py:337-369
\* setup_environment: required_env_vars is empty, so it returns True unless
\* a mkdir raises.
setup_environment(mkdirFault) ==
    [raised |-> mkdirFault, value |-> TRUE]

\* the test of line 418 with the "not" of its second operand dropped
NeedsInit_flagInverted(inst, initialized) ==
    inst = None \/ initialized

\* the test of line 418 reduced to its second operand
NeedsInit_flagOnly(inst, initialized) ==
    ~initialized

\* src/ai_agent.py:418, the test that decides whether to initialize
NeedsInit(inst, initialized) ==
    inst = None \/ ~initialized

\* src/ai_agent.py:431: the value of _agent_instance once the constructor
\* raised; the assignment has not been executed
StoredAfterCtorFault(old, fresh) == old

\* ------------------------------------------------- src/ai_agent.py:414-435
\* get_homeopathic_agent up to the await: either the else branch and the
\* return of line 446, or setup, construction, and entering the load.
get_homeopathic_agent(c) ==
    /\ pc[c] = "idle"
    /\ UNCHANGED textVars
    /\ IF ~NeedsInit(_agent_instance, _agent_initialized)
       THEN /\ ret' = [ret EXCEPT ![c] = Returned(_agent_instance, FALSE, FALSE)]
            /\ UNCHANGED <<_agent_instance, _agent_initialized, pc, loading,
                           constructed, loads, kb, resets>>
       ELSE \E mkdirFault \in BOOLEAN, ctorFault \in BOOLEAN :
              LET env == setup_environment(mkdirFault)
                  fresh == constructed + 1
              IN  IF env.raised \/ ~env.value
                  THEN /\ ret' = [ret EXCEPT ![c] = Raised]
                       /\ UNCHANGED <<_agent_instance, _agent_initialized, pc,
                                      loading, constructed, loads, kb, resets>>
                  ELSE IF ctorFault
                  THEN /\ ret' = [ret EXCEPT ![c] = Raised]
                       /\ _agent_instance' =
                             StoredAfterCtorFault(_agent_instance, fresh)
                       /\ UNCHANGED <<_agent_initialized, pc, loading,
                                      constructed, loads, kb, resets>>
                  ELSE /\ constructed < MaxInstances
                       /\ constructed' = fresh
                       /\ _agent_instance' = fresh
                       /\ loads' = loads + 1
                       /\ loading' = [loading EXCEPT ![c] = fresh]
                       /\ kb' = [kb EXCEPT ![fresh] = "loading"]
                       /\ pc' = [pc EXCEPT ![c] = "load"]
                       /\ ret' = [ret EXCEPT ![c] = Pending]
                       /\ UNCHANGED <<_agent_initialized, resets>>

\* ------------------------------------------------- src/ai_agent.py:435-446
\* the rest of get_homeopathic_agent: the awaited load finishes, the flag is
\* set and the module-level _agent_instance is returned.
get_homeopathic_agent_resume(c) ==
    /\ pc[c] = "load"
    /\ UNCHANGED textVars
    /\ \E corpus \in {"empty", "pdfs"}, fault \in BOOLEAN :
         LET r == load_knowledge_base(corpus, fault)
         IN  /\ kb' = [kb EXCEPT ![loading[c]] = r.kb]
             /\ pc' = [pc EXCEPT ![c] = "idle"]
             /\ loading' = [loading EXCEPT ![c] = None]
             /\ IF r.raised
                THEN /\ ret' = [ret EXCEPT ![c] = Raised]
                     /\ UNCHANGED <<_agent_instance, _agent_initialized>>
                ELSE /\ _agent_initialized' = TRUE
                     /\ ret' = [ret EXCEPT ![c] =
                                  Returned(_agent_instance, TRUE, r.value)]
                     /\ UNCHANGED _agent_instance
             /\ UNCHANGED <<constructed, loads, resets>>

\* ------------------------------------------------- src/ai_agent.py:448-453
reset_agent ==
    /\ resets < MaxResets
    /\ _agent_instance' = None
    /\ _agent_initialized' = FALSE
    /\ resets' = resets + 1
    /\ UNCHANGED <<pc, loading, ret, constructed, loads, kb>>
    /\ UNCHANGED textVars

\* no analyze_patient_case call made yet
NoReport ==
    [status |-> "none", ai_analysis |-> << >>, recommended_remedies |-> << >>,
     confidence_score |-> << >>, follow_up_recommendations |-> << >>]
NoAnalysis ==
    [on |-> None, input |-> << >>, raised |-> FALSE, result |-> NoReport]

\* caller c calls analyze_patient_case on the object its latest
\* get_homeopathic_agent call returned (src/ai_agent.py:459-484,
\* src/test_agent_performance.py:65-88); on None the attribute lookup raises
\* before the method is entered.  faults: what may go wrong inside the call.
analyze(c, texts, faults) ==
    /\ pc[c] = "idle"
    /\ ret[c].kind = "returned"
    /\ \E t \in texts :
         IF ret[c].value = None
         THEN report' = [on |-> None, input |-> t, raised |-> TRUE,
                         result |-> NoReport]
         ELSE \E f \in faults : \E r \in analysis_reports[t][f] :
                 report' = [on |-> ret[c].value, input |-> t,
                            raised |-> FALSE, result |-> r]
    /\ UNCHANGED <<narrative, extracted>>
    /\ UNCHANGED caseVars
    /\ UNCHANGED concVars
    /\ UNCHANGED lifecycleVars

\* a direct call of _extract_remedies on the narrative
NotExtracted == [called |-> FALSE, value |-> << >>]

extract_remedies_call ==
    /\ ~extracted.called
    /\ extracted' = [called |-> TRUE,
                     value |-> _extract_remedies(join(<<"\n">>, narrative))]
    /\ UNCHANGED <<report, narrative>>
    /\ UNCHANGED caseVars
    /\ UNCHANGED concVars
    /\ UNCHANGED lifecycleVars

\* ------------------------------------------------- src/ai_agent.py:141-178
\* analyze_patient_case, one action per step of its try block.  call.fault
\* is what went wrong inside the step just run, call.exc the exception that
\* step raised into analyze_patient_case, call.clean whether nothing has gone
\* wrong in any step so far.
NoQuery == [built |-> FALSE, text |-> << >>]

IdleCall ==
    [step |-> "IDLE", on |-> None, fault |-> NoFault, exc |-> NoFault,
     clean |-> TRUE,
     symptoms |-> << >>, query |-> NoQuery, relevant_docs |-> << >>,
     analysis_text |-> << >>, remedies |-> << >>,
     propagated |-> FALSE, result |-> NoReport]

NoPrevious == [done |-> FALSE, result |-> NoReport]

\* the call has returned (or raised)
Terminal == call.step \in {"DONE", "ERROR"}

\* the report kept for comparison: that of the latest call in which nothing
\* went wrong
Carry ==
    IF call.step = "DONE" /\ call.clean
    THEN [done |-> TRUE, result |-> call.result]
    ELSE previous

\* call cl leaves the try block through the except clause of lines 170-178
fail_step(cl, f) ==
    LET h == analyze_except(f.message)
    IN  [cl EXCEPT !.step = "ERROR", !.fault = f, !.exc = f,
                   !.clean = FALSE,
                   !.propagated = h.propagated, !.result = h.result]

Failed(f) == fail_step(call, f)

\* the step cl.step of the try block run to its end on summary sm in a
\* process with this hash seed: lines 153, 154, 157, 163 and 160-168
run_step(cl, sm, seed) ==
    CASE cl.step = "EXTRACT" ->
           [cl EXCEPT !.step = "RETRIEVE", !.fault = NoFault, !.exc = NoFault,
                      !.symptoms = extract_symptoms_in(seed, sm.text)]
      [] cl.step = "RETRIEVE" ->
           [cl EXCEPT !.step = "COMPOSE", !.fault = NoFault, !.exc = NoFault,
                      !.query = search_query(cl.symptoms),
                      !.relevant_docs = _search_knowledge_base(cl.symptoms)]
      [] cl.step = "COMPOSE" ->
           [cl EXCEPT !.step = "PARSE_REMEDIES", !.fault = NoFault,
                      !.exc = NoFault,
                      !.analysis_text =
                          _create_analysis_from_docs(sm.text, cl.relevant_docs)]
      [] cl.step = "PARSE_REMEDIES" ->
           [cl EXCEPT !.step = "PARSE_FOLLOWUPS", !.fault = NoFault,
                      !.exc = NoFault,
                      !.remedies = _extract_remedies(cl.analysis_text)]
      [] cl.step = "PARSE_FOLLOWUPS" ->
           [cl EXCEPT !.step = "DONE", !.fault = NoFault, !.exc = NoFault,
                      !.result =
                        [status |-> "success",
                         ai_analysis |-> cl.analysis_text,
                         recommended_remedies |-> cl.remedies,
                         confidence_score |-> Confidence75,
                         follow_up_recommendations |->
                             _extract_follow_up(cl.analysis_text)]]

\* src/main.py:342: the method is called on the agent the caller holds
analyze_enter(c) ==
    /\ pc[c] = "idle"
    /\ ret[c].kind = "returned"
    /\ ret[c].value # None
    /\ call.step \in {"IDLE", "DONE", "ERROR"}
    /\ previous' = Carry
    /\ call' = [IdleCall EXCEPT !.step = "EXTRACT", !.on = ret[c].value]
    /\ UNCHANGED <<summary, hash_seed, report, narrative, extracted>>
    /\ UNCHANGED concVars
    /\ UNCHANGED lifecycleVars

\* src/ai_agent.py:153; patient_summary.lower() raises on a summary that is
\* no str
analyze_extract ==
    /\ call.step = "EXTRACT"
    /\ IF ~summary.is_str
       THEN call' = Failed([raised |-> TRUE, message |-> NoLowerMessage])
       ELSE \/ \E f \in RaisedFaults : call' = Failed(f)
            \/ call' = run_step(call, summary, hash_seed)
    /\ UNCHANGED <<summary, hash_seed, previous, report, narrative, extracted>>
    /\ UNCHANGED concVars
    /\ UNCHANGED lifecycleVars

\* src/ai_agent.py:154; _search_knowledge_base catches what goes wrong in
\* its own try block (lines 224-243) and returns a list in every case
analyze_retrieve ==
    /\ call.step = "RETRIEVE"
    /\ \/ \E f \in RaisedFaults :
            call' = [call EXCEPT
                       !.step = "COMPOSE", !.fault = f, !.exc = NoFault,
                       !.clean = FALSE,
                       !.relevant_docs = search_except(f.message)]
       \/ call' = run_step(call, summary, hash_seed)
    /\ UNCHANGED <<summary, hash_seed, previous, report, narrative, extracted>>
    /\ UNCHANGED concVars
    /\ UNCHANGED lifecycleVars

\* src/ai_agent.py:157
analyze_compose ==
    /\ call.step = "COMPOSE"
    /\ \/ \E f \in RaisedFaults : call' = Failed(f)
       \/ call' = run_step(call, summary, hash_seed)
    /\ UNCHANGED <<summary, hash_seed, previous, report, narrative, extracted>>
    /\ UNCHANGED concVars
    /\ UNCHANGED lifecycleVars

\* src/ai_agent.py:163
analyze_parse_remedies ==
    /\ call.step = "PARSE_REMEDIES"
    /\ \/ \E f \in RaisedFaults : call' = Failed(f)
       \/ call' = run_step(call, summary, hash_seed)
    /\ UNCHANGED <<summary, hash_seed, previous, report, narrative, extracted>>
    /\ UNCHANGED concVars
    /\ UNCHANGED lifecycleVars

\* src/ai_agent.py:160-168: the last entry of the dict and the return
analyze_parse_followups ==
    /\ call.step = "PARSE_FOLLOWUPS"
    /\ \/ \E f \in RaisedFaults : call' = Failed(f)
       \/ call' = run_step(call, summary, hash_seed)
    /\ UNCHANGED <<summary, hash_seed, previous, report, narrative, extracted>>
    /\ UNCHANGED concVars
    /\ UNCHANGED lifecycleVars

\* src/main.py:15-25: the service process is started again and its startup
\* obtains the agent; the new process has its own hash seed
restart_process ==
    /\ call.step \in {"IDLE", "DONE", "ERROR"}
    /\ hash_seed' \in HashSeeds
    /\ previous' = Carry
    /\ call' = IdleCall
    /\ UNCHANGED <<summary, report, narrative, extracted>>
    /\ UNCHANGED concVars
    /\ UNCHANGED lifecycleVars

\* lines a summary that names remedies is made of: two that hold a potency
\* and a remedy name, and one that holds a potency, a symptom keyword and no
\* remedy name
RemedyPool ==
    <<
       <<"N","u","x"," ","1","M">>,
       <<" ","S","u","l","p","h","u","r"," ","2","0","0","c">>,
       <<"c","a","l","m"," ","n","u","x"," ","f","e","v","e","r">>
    >>

\* summaries that name remedies: at most n pool lines joined by newlines
RemedyTexts(n) ==
    {join(<<"\n">>, [i \in 1..Len(ls) |-> RemedyPool[ls[i]]]) :
        ls \in SeqsUpTo(1..Len(RemedyPool), n)}

\* src/main.py:342, src/ai_agent.py:141-178: caller c has the agent it holds
\* analyze the summary of the request, the whole call at once
analyze_summary(c) ==
    /\ pc[c] = "idle"
    /\ ret[c].kind = "returned"
    /\ ret[c].value # None
    /\ \E f \in Faults :
         report' =
           [on |-> ret[c].value, input |-> summary.text, raised |-> FALSE,
            result |->
              IF summary.is_str
              THEN analyze_patient_case(
                       summary.text,
                       extract_symptoms_in(hash_seed, summary.text), f)
              ELSE analyze_except(NoLowerMessage).result]
    /\ UNCHANGED <<narrative, extracted>>
    /\ UNCHANGED caseVars
    /\ UNCHANGED concVars
    /\ UNCHANGED lifecycleVars

\* ----------------------------------------------------- src/main.py:15-344
\* src/main.py:350
HttpFallbackStatus ==
    "Analysis Complete (Fallback Mode)"

\* src/main.py:351, the text before {str(e)}
HttpFallbackHead ==
    <<"A","I"," ","A","n","a","l","y","s","i","s"," ","t","e","m","p","o",
      "r","a","r","i","l","y"," ","u","n","a","v","a","i","l","a","b","l",
      "e","."," ","E","r","r","o","r",":"," ">>

\* src/main.py:351-360, the text after {str(e)}
HttpFallbackTail ==
    <<"\n","\n","F","A","L","L","B","A","C","K"," ","A","N","A","L","Y","S",
      "I","S",":","\n","B","a","s","e","d"," ","o","n"," ","t","h","e"," ",
      "p","r","o","v","i","d","e","d"," ","p","a","t","i","e","n","t"," ",
      "i","n","f","o","r","m","a","t","i","o","n",","," ","a"," ","c","o",
      "m","p","r","e","h","e","n","s","i","v","e"," ","h","o","m","e","o",
      "p","a","t","h","i","c"," ","a","n","a","l","y","s","i","s"," ","w",
      "o","u","l","d"," ","c","o","n","s","i","d","e","r",":","\n","\n","1",
      "."," ","C","o","n","s","t","i","t","u","t","i","o","n","a","l"," ",
      "a","s","s","e","s","s","m","e","n","t"," ","b","a","s","e","d"," ",
      "o","n"," ","p","h","y","s","i","c","a","l"," ","a","n","d"," ","m",
      "e","n","t","a","l"," ","s","y","m","p","t","o","m","s","\n","2",".",
      " ","M","i","a","s","m","a","t","i","c"," ","e","v","a","l","u","a",
      "t","i","o","n"," ","c","o","n","s","i","d","e","r","i","n","g"," ",
      "c","h","r","o","n","i","c"," ","p","a","t","t","e","r","n","s","\n",
      "3","."," ","S","y","m","p","t","o","m"," ","t","o","t","a","l","i",
      "t","y"," ","i","n","c","l","u","d","i","n","g"," ","m","o","d","a",
      "l","i","t","i","e","s"," ","a","n","d"," ","p","e","c","u","l","i",
      "a","r","i","t","i","e","s","\n","4","."," ","R","e","m","e","d","y",
      " ","s","e","l","e","c","t","i","o","n"," ","b","a","s","e","d"," ",
      "o","n"," ","s","i","m","i","l","i","m","u","m"," ","p","r","i","n",
      "c","i","p","l","e","\n","\n","P","l","e","a","s","e"," ","c","o","n",
      "s","u","l","t"," ","w","i","t","h"," ","a"," ","q","u","a","l","i",
      "f","i","e","d"," ","h","o","m","e","o","p","a","t","h","i","c"," ",
      "p","r","a","c","t","i","t","i","o","n","e","r"," ","f","o","r"," ",
      "p","r","o","p","e","r"," ","c","a","s","e"," ","a","n","a","l","y",
      "s","i","s",".">>

\* src/main.py:361-365
HttpFallbackRemedies ==
    <<
       <<"C","o","n","s","t","i","t","u","t","i","o","n","a","l"," ","r",
         "e","m","e","d","y"," ","-"," ","t","o"," ","b","e"," ","d","e",
         "t","e","r","m","i","n","e","d"," ","b","y"," ","q","u","a","l",
         "i","f","i","e","d"," ","p","r","a","c","t","i","t","i","o","n",
         "e","r">>,
       <<"S","y","m","p","t","o","m","a","t","i","c"," ","r","e","m","e",
         "d","y"," ","-"," ","b","a","s","e","d"," ","o","n"," ","a","c",
         "u","t","e"," ","p","r","e","s","e","n","t","a","t","i","o","n">>,
       <<"F","o","l","l","o","w","-","u","p"," ","c","o","n","s","u","l",
         "t","a","t","i","o","n"," ","r","e","c","o","m","m","e","n","d",
         "e","d">>
    >>

\* src/main.py:366
HttpFallbackConfidence ==
    <<"N","/","A">>

\* src/main.py:367-371
HttpFallbackFollowUps ==
    <<
       <<"C","o","n","s","u","l","t"," ","q","u","a","l","i","f","i","e",
         "d"," ","h","o","m","e","o","p","a","t","h","i","c"," ","p","r",
         "a","c","t","i","t","i","o","n","e","r">>,
       <<"P","r","o","v","i","d","e"," ","c","o","m","p","l","e","t","e",
         " ","c","a","s","e"," ","h","i","s","t","o","r","y">>,
       <<"M","o","n","i","t","o","r"," ","s","y","m","p","t","o","m"," ",
         "c","h","a","n","g","e","s">>
    >>

\* str() of the AttributeError that global_agent.analyze_patient_case raises
\* at src/main.py:342 when global_agent is None
NoAnalyzeMessage ==
    <<"'","N","o","n","e","T","y","p","e","'"," ","o","b","j","e","c","t",
      " ","h","a","s"," ","n","o"," ","a","t","t","r","i","b","u","t","e",
      " ","'","a","n","a","l","y","z","e","_","p","a","t","i","e","n","t",
      "_","c","a","s","e","'">>

\* src/main.py:348-372, the reply of the except clause of analyze_with_ai
http_fallback(message) ==
    [status |-> HttpFallbackStatus,
     ai_analysis |-> HttpFallbackHead \o message \o HttpFallbackTail,
     recommended_remedies |-> HttpFallbackRemedies,
     confidence_score |-> HttpFallbackConfidence,
     follow_up_recommendations |-> HttpFallbackFollowUps]

\* the test of line 337 never sending a request to get_homeopathic_agent
needs_agent_never(g) == FALSE

\* src/main.py:337
needs_agent(g) == g = None

\* no request answered yet for a caller
NoServed == [agent |-> None, attempted |-> FALSE, result |-> NoReport]

\* the report analyze_patient_case returns for a sample summary and a
\* fault in a process with a given hash seed, tabulated
sample_reports ==
    [seed \in HashSeeds |->
        [t \in SampleTexts |->
            [f \in Faults |->
                analyze_patient_case(t, extract_symptoms_in(seed, t), f)]]]

\* src/main.py:342-344 and 346-372: the reply to a request handled with
\* agent g; on None the attribute lookup raises into the except clause
reply(g, patient_summary, fault) ==
    IF g = None
    THEN http_fallback(NoAnalyzeMessage)
    ELSE sample_reports[hash_seed][patient_summary][fault]

\* src/main.py:21-25 and 339-372: what follows the get_homeopathic_agent
\* call of caller c once it has ended.  A returned agent is stored in
\* global_agent; an exception leaves global_agent as the handler found it
\* (None) and, in a request, gives the fallback reply.
after_get(c, request) ==
    IF ret'[c].kind = "returned"
    THEN /\ global_agent' = ret'[c].value
         /\ IF request
            THEN \E t \in SampleTexts, f \in Faults :
                    served' = [served EXCEPT ![c] =
                                 [agent |-> ret'[c].value, attempted |-> TRUE,
                                  result |-> reply(ret'[c].value, t, f)]]
            ELSE UNCHANGED served
    ELSE /\ global_agent' = IF request THEN global_agent ELSE None
         /\ IF request
            THEN \E f \in RaisedFaults :
                    served' = [served EXCEPT ![c] =
                                 [agent |-> None, attempted |-> TRUE,
                                  result |-> http_fallback(f.message)]]
            ELSE UNCHANGED served

\* src/start_server.py:10-19 and 27: the agent is initialized before the
\* server is started; the outcome is only printed
initialize_agent ==
    /\ server = "down"
    /\ get_homeopathic_agent(1)
    /\ server' = IF pc'[1] = "load" THEN "preinit" ELSE "ready"
    /\ UNCHANGED <<global_agent, served>>

initialize_agent_resume ==
    /\ server = "preinit"
    /\ get_homeopathic_agent_resume(1)
    /\ server' = "ready"
    /\ UNCHANGED <<global_agent, served>>

\* src/main.py:15-25, up to the await inside get_homeopathic_agent or, when
\* the call does not wait, to the end; the server is started through
\* start_server.py or directly
startup_event ==
    /\ server \in {"down", "ready"}
    /\ get_homeopathic_agent(1)
    /\ IF pc'[1] = "load"
       THEN /\ server' = "startup"
            /\ UNCHANGED <<global_agent, served>>
       ELSE /\ server' = "serving"
            /\ after_get(1, FALSE)

startup_event_resume ==
    /\ server = "startup"
    /\ get_homeopathic_agent_resume(1)
    /\ server' = "serving"
    /\ after_get(1, FALSE)

\* src/main.py:329-372, a request of caller c, up to the await inside
\* get_homeopathic_agent or, when nothing waits, to the reply
analyze_with_ai(c) ==
    /\ server = "serving"
    /\ pc[c] = "idle"
    /\ UNCHANGED server
    /\ IF needs_agent(global_agent)
       THEN /\ get_homeopathic_agent(c)
            /\ IF pc'[c] = "load"
               THEN UNCHANGED <<global_agent, served>>
               ELSE after_get(c, TRUE)
       ELSE /\ \E t \in SampleTexts, f \in Faults :
                 served' = [served EXCEPT ![c] =
                              [agent |-> global_agent, attempted |-> FALSE,
                               result |-> reply(global_agent, t, f)]]
            /\ UNCHANGED <<_agent_instance, _agent_initialized, pc, loading,
                           ret, constructed, loads, kb, resets, global_agent>>
            /\ UNCHANGED textVars

analyze_with_ai_resume(c) ==
    /\ server = "serving"
    /\ get_homeopathic_agent_resume(c)
    /\ UNCHANGED server
    /\ after_get(c, TRUE)

\* ------------------------------------------------- src/ai_agent.py:141-178
\* analyze_patient_case called by several callers on the agent they share,
\* their steps interleaved.  The coroutine keeps patient_summary, symptoms,
\* relevant_docs and analysis_text in local variables and assigns no
\* attribute of self.
\* the locals of every call kept in one place, as attributes of the agent
\* would be
Frame_shared(c) == 1

\* src/ai_agent.py:153-157: where the locals of caller c's call live, the
\* frame of that call
Frame(c) == c

\* summaries of the concurrent calls
ConcSummaries ==
    {StrSummary(CasePool[1]), StrSummary(CasePool[2]), NoneSummary}

\* src/main.py:342, caller c enters analyze_patient_case with its summary
call_enter(c) ==
    /\ pc[c] = "idle"
    /\ ret[c].kind = "returned"
    /\ ret[c].value # None
    /\ calls[Frame(c)].step = "IDLE"
    /\ calls' = [calls EXCEPT ![Frame(c)] =
                   [IdleCall EXCEPT !.step = "EXTRACT", !.on = ret[c].value]]
    /\ UNCHANGED inputs
    /\ UNCHANGED <<report, narrative, extracted>>
    /\ UNCHANGED caseVars
    /\ UNCHANGED lifecycleVars

\* src/ai_agent.py:153-168 and 170-178: the call of caller c runs its next
\* step, the except clause when patient_summary.lower() raises
call_step(c) ==
    /\ calls[Frame(c)].step \in
          {"EXTRACT", "RETRIEVE", "COMPOSE", "PARSE_REMEDIES",
           "PARSE_FOLLOWUPS"}
    /\ calls' = [calls EXCEPT ![Frame(c)] =
                   IF calls[Frame(c)].step = "EXTRACT" /\ ~inputs[c].is_str
                   THEN fail_step(calls[Frame(c)],
                                  [raised |-> TRUE, message |-> NoLowerMessage])
                   ELSE run_step(calls[Frame(c)], inputs[c], hash_seed)]
    /\ UNCHANGED inputs
    /\ UNCHANGED <<report, narrative, extracted>>
    /\ UNCHANGED caseVars
    /\ UNCHANGED lifecycleVars

\* no concurrent calls and no HTTP server
ConcIdle ==
    /\ calls = [c \in Callers |-> IdleCall]
    /\ inputs = [c \in Callers |-> StrSummary(<< >>)]

HttpIdle ==
    /\ global_agent = None
    /\ server = "down"
    /\ served = [c \in Callers |-> NoServed]

\* no analyze_patient_case call by steps
CaseIdle ==
    /\ summary = StrSummary(<< >>)
    /\ hash_seed = 1
    /\ call = IdleCall
    /\ previous = NoPrevious

\* ------------------------------------------------- src/ai_agent.py:410-412
Init ==
    /\ _agent_instance = None
    /\ _agent_initialized = FALSE
    /\ pc = [c \in Callers |-> "idle"]
    /\ loading = [c \in Callers |-> None]
    /\ ret = [c \in Callers |-> NoCall]
    /\ constructed = 0
    /\ loads = 0
    /\ kb = [i \in Instances |-> "unloaded"]
    /\ resets = 0
    /\ report = NoAnalysis
    /\ narrative = << >>
    /\ extracted = NotExtracted
    /\ CaseIdle
    /\ ConcIdle
    /\ HttpIdle

Next ==
    \/ \E c \in Callers : get_homeopathic_agent(c) /\ UNCHANGED httpVars
    \/ \E c \in Callers : get_homeopathic_agent_resume(c) /\ UNCHANGED httpVars
    \/ reset_agent /\ UNCHANGED httpVars

Spec == Init /\ [][Next]_vars

\* Calls made one at a time, each awaited before the next call or reset is
\* made, and analyses run on the agent obtained, as
\* src/test_agent_performance.py:17-36 and 65-88 do.
NoneInFlight == \A d \in Callers : pc[d] = "idle"

SeqNext ==
    \/ \E c \in Callers :
          NoneInFlight /\ get_homeopathic_agent(c) /\ UNCHANGED httpVars
    \/ \E c \in Callers : get_homeopathic_agent_resume(c) /\ UNCHANGED httpVars
    \/ NoneInFlight /\ reset_agent /\ UNCHANGED httpVars
    \/ \E c \in Callers : NoneInFlight /\ analyze(c, SampleTexts, {NoFault})

SeqSpec == Init /\ [][SeqNext]_vars

\* The state after one get_homeopathic_agent call by caller 1 that found
\* PDF documents and loaded them.
InitReady ==
    /\ _agent_instance = 1
    /\ _agent_initialized = TRUE
    /\ pc = [c \in Callers |-> "idle"]
    /\ loading = [c \in Callers |-> None]
    /\ ret = [c \in Callers |-> IF c = 1 THEN Returned(1, TRUE, TRUE) ELSE NoCall]
    /\ constructed = 1
    /\ loads = 1
    /\ kb = [i \in Instances |-> IF i = 1 THEN "loaded" ELSE "unloaded"]
    /\ resets = 0

\* analyze_patient_case over all patient summaries
InitAnalysis ==
    /\ InitReady
    /\ report = NoAnalysis
    /\ narrative = << >>
    /\ extracted = NotExtracted
    /\ CaseIdle
    /\ ConcIdle
    /\ HttpIdle

AnalysisNext == \E c \in Callers : analyze(c, PatientTexts, Faults)

AnalysisSpec == InitAnalysis /\ [][AnalysisNext]_vars

\* _extract_remedies over all narratives
InitExtract ==
    /\ InitReady
    /\ report = NoAnalysis
    /\ narrative \in Narratives(MaxNarrativeLines)
    /\ extracted = NotExtracted
    /\ CaseIdle
    /\ ConcIdle
    /\ HttpIdle

ExtractNext == extract_remedies_call

ExtractSpec == InitExtract /\ [][ExtractNext]_vars

\* analyze_patient_case by steps, over all case summaries, on an agent whose
\* load found documents, found none, or failed
InitCase ==
    /\ _agent_instance = 1
    /\ _agent_initialized = TRUE
    /\ pc = [c \in Callers |-> "idle"]
    /\ loading = [c \in Callers |-> None]
    /\ \E k \in {"loaded", "empty", "failed"} :
          /\ kb = [i \in Instances |-> IF i = 1 THEN k ELSE "unloaded"]
          /\ ret = [c \in Callers |->
                      IF c = 1 THEN Returned(1, TRUE, k = "loaded") ELSE NoCall]
    /\ constructed = 1
    /\ loads = 1
    /\ resets = 0
    /\ report = NoAnalysis
    /\ narrative = << >>
    /\ extracted = NotExtracted
    /\ summary \in {StrSummary(t) : t \in CaseTexts(MaxPatientLines)}
                      \cup {NoneSummary}
    /\ hash_seed \in HashSeeds
    /\ call = IdleCall
    /\ previous = NoPrevious
    /\ ConcIdle
    /\ HttpIdle

CaseNext ==
    \/ \E c \in Callers : analyze_enter(c)
    \/ analyze_extract
    \/ analyze_retrieve
    \/ analyze_compose
    \/ analyze_parse_remedies
    \/ analyze_parse_followups
    \/ restart_process

CaseSpec == InitCase /\ [][CaseNext]_vars

\* calls of analyze_patient_case in one process, on an agent that loaded its
\* documents
InitCaseLive ==
    /\ InitReady
    /\ report = NoAnalysis
    /\ narrative = << >>
    /\ extracted = NotExtracted
    /\ summary \in {StrSummary(t) : t \in CaseTexts(MaxPatientLines)}
                      \cup {NoneSummary}
    /\ hash_seed \in HashSeeds
    /\ call = IdleCall
    /\ previous = NoPrevious
    /\ ConcIdle
    /\ HttpIdle

CaseLiveNext ==
    \/ \E c \in Callers : analyze_enter(c)
    \/ analyze_extract
    \/ analyze_retrieve
    \/ analyze_compose
    \/ analyze_parse_remedies
    \/ analyze_parse_followups

\* analyze_patient_case awaits nothing (src/ai_agent.py:151-178): once
\* entered, the call runs each of its steps without waiting for anything
CaseLiveSpec ==
    /\ InitCaseLive
    /\ [][CaseLiveNext]_vars
    /\ WF_vars(analyze_extract)
    /\ WF_vars(analyze_retrieve)
    /\ WF_vars(analyze_compose)
    /\ WF_vars(analyze_parse_remedies)
    /\ WF_vars(analyze_parse_followups)

\* analyze_patient_case over summaries that name remedies
InitRemedy ==
    /\ InitReady
    /\ report = NoAnalysis
    /\ narrative = << >>
    /\ extracted = NotExtracted
    /\ summary \in {StrSummary(t) : t \in RemedyTexts(MaxRemedyLines)}
                      \cup {NoneSummary}
    /\ hash_seed = 1
    /\ call = IdleCall
    /\ previous = NoPrevious
    /\ ConcIdle
    /\ HttpIdle

RemedyNext == \E c \in Callers : analyze_summary(c)

RemedySpec == InitRemedy /\ [][RemedyNext]_vars

\* the HTTP service from its start: the agent module as loaded, no agent
\* held, no request answered (Init).  src/main.py never calls reset_agent.
HttpNext ==
    \/ initialize_agent
    \/ initialize_agent_resume
    \/ startup_event
    \/ startup_event_resume
    \/ \E c \in Callers : analyze_with_ai(c)
    \/ \E c \in Callers : analyze_with_ai_resume(c)

HttpSpec == Init /\ [][HttpNext]_vars

\* every caller holds the one initialized agent and has a summary to analyse
InitConc ==
    /\ _agent_instance = 1
    /\ _agent_initialized = TRUE
    /\ pc = [c \in Callers |-> "idle"]
    /\ loading = [c \in Callers |-> None]
    /\ ret = [c \in Callers |-> Returned(1, c = 1, c = 1)]
    /\ constructed = 1
    /\ loads = 1
    /\ kb = [i \in Instances |-> IF i = 1 THEN "loaded" ELSE "unloaded"]
    /\ resets = 0
    /\ report = NoAnalysis
    /\ narrative = << >>
    /\ extracted = NotExtracted
    /\ CaseIdle
    /\ calls = [c \in Callers |-> IdleCall]
    /\ inputs \in [Callers -> ConcSummaries]
    /\ HttpIdle

ConcNext ==
    \/ \E c \in Callers : call_enter(c)
    \/ \E c \in Callers : call_step(c)

ConcSpec == InitConc /\ [][ConcNext]_vars

\* ================================================================ claims

\* instances held by the module singleton or by an initialization in flight
Live == ({_agent_instance} \cup {loading[c] : c \in Callers}) \ {None}

\* C1: as long as reset_agent has not been called, concurrent callers of
\* get_homeopathic_agent cause one initialization pass (one construction,
\* one load_knowledge_base run) and all of them receive the same instance.
C1_OneInitPass ==
    resets = 0 =>
        /\ constructed <= 1
        /\ loads <= 1
        /\ \A c, d \in Callers :
              (ret[c].kind = "returned" /\ ret[d].kind = "returned")
                  => ret[c].value = ret[d].value

\* C2: once the singleton is stored and initialized, every step other than
\* reset_agent keeps the instance and the flag, constructs nothing, starts no
\* load, and a get_homeopathic_agent call returns the stored instance
\* without initializing.
C2_ReuseAfterSuccess ==
    [][ (_agent_instance # None /\ _agent_initialized /\ resets' = resets)
        => /\ _agent_instance' = _agent_instance
           /\ _agent_initialized'
           /\ constructed' = constructed
           /\ loads' = loads
           /\ \A c \in Callers :
                 get_homeopathic_agent(c)
                    => ret'[c] = Returned(_agent_instance, FALSE, FALSE) ]_vars

C2_Witness ==
    \E c \in Callers :
        /\ ret[c].kind = "returned"
        /\ ~ret[c].init
        /\ ret[c].value # None
        /\ ret[c].value = _agent_instance
        /\ _agent_initialized

\* C3: reset_agent leaves the instance absent and the flag false; a
\* get_homeopathic_agent call that finds the instance absent either raises
\* or constructs a new instance and starts its load; and the call that
\* initialized never returns an instance older than the one it built.
C3_ResetForcesReinit ==
    [][ /\ reset_agent => (_agent_instance' = None /\ ~_agent_initialized')
        /\ \A c \in Callers :
              (_agent_instance = None /\ get_homeopathic_agent(c))
                 => \/ ret'[c].kind = "raised" /\ pc'[c] = "idle"
                    \/ /\ constructed' = constructed + 1
                       /\ loads' = loads + 1
                       /\ _agent_instance' = constructed'
                       /\ loading'[c] = constructed'
                       /\ pc'[c] = "load"
        /\ \A c \in Callers :
              (get_homeopathic_agent_resume(c) /\ ret'[c].kind = "returned")
                 => /\ ret'[c].init
                    /\ ret'[c].value = None \/ ret'[c].value >= loading[c] ]_vars

\* one caller got instance 1, reset_agent ran, the other caller's call then
\* built and returned instance 2
C3_Witness ==
    /\ resets = 1
    /\ ret[2].kind = "returned" /\ ret[2].value = 1
    /\ ret[1].kind = "returned" /\ ret[1].value = 2 /\ ret[1].init
    /\ _agent_instance = 2
    /\ _agent_initialized
    /\ kb[2] # "loading"

\* C4: a get_homeopathic_agent call that raises leaves the instance absent
\* and the flag false, so the test of line 418 sends the next call through
\* the whole initialization again.
C4_FailureLeavesUnset ==
    [][ \A c \in Callers :
          (get_homeopathic_agent(c) /\ ret'[c].kind = "raised")
             => /\ _agent_instance' = None
                /\ ~_agent_initialized'
                /\ NeedsInit(_agent_instance', _agent_initialized') ]_vars

\* C5: when the load of the knowledge base fails during initialization,
\* get_homeopathic_agent raises, does not set the initialized flag and
\* leaves the instance absent.
C5_IndexFailureAborts ==
    [][ \A c \in Callers :
          (get_homeopathic_agent_resume(c) /\ kb'[loading[c]] = "failed")
             => /\ ret'[c].kind = "raised"
                /\ ~_agent_initialized'
                /\ _agent_instance' = None ]_vars

\* C6: with no PDF in the corpus directory load_knowledge_base returns False
\* without raising, get_homeopathic_agent returns the instance and sets the
\* initialized flag, and analyze_patient_case can be called on that instance
\* and returns a success report.
C6_EmptyCorpusStillServes ==
    /\ [][ \A c \in Callers :
             (get_homeopathic_agent_resume(c) /\ kb'[loading[c]] = "empty")
                => /\ ret'[c].kind = "returned"
                   /\ ~ret'[c].success
                   /\ ret'[c].value = loading[c]
                   /\ _agent_instance' = loading[c]
                   /\ _agent_initialized' ]_vars
    /\ [](\A c \in Callers :
            ( /\ NoneInFlight
              /\ ret[c].kind = "returned"
              /\ ret[c].value # None
              /\ kb[ret[c].value] = "empty" )
               => ENABLED analyze(c, SampleTexts, {NoFault}))
    /\ []((report.on # None /\ kb[report.on] = "empty")
             => /\ ~report.raised
                /\ report.result.status = "success"
                /\ report.result.ai_analysis # << >>
                /\ report.result.recommended_remedies # << >>)

C6_Witness ==
    /\ report.on # None
    /\ kb[report.on] = "empty"
    /\ report.on = _agent_instance
    /\ _agent_initialized
    /\ report.result.status = "success"

\* C7: at most one instance is held by the module singleton or by an
\* initialization in flight.
C7_AtMostOneLive ==
    Cardinality(Live) <= 1

\* C8: the recommended_remedies of a report returned by analyze_patient_case
\* has at most 5 entries and no entry twice.
C8_RemediesBoundedDistinct ==
    LET rr == report.result.recommended_remedies
    IN  /\ Len(rr) <= 5
        /\ \A i, j \in 1..Len(rr) : i # j => rr[i] # rr[j]

\* positions of the narrative's lines that hold a potency and a remedy name
MatchingLines == {i \in 1..Len(narrative) : IsRemedyLine(narrative[i])}

\* the k-th of them in narrative order
KthMatching(k) ==
    CHOOSE m \in MatchingLines : Cardinality({x \in MatchingLines : x < m}) = k - 1

\* C9: for a narrative of pairwise distinct lines with more than 5 matching
\* lines, _extract_remedies returns exactly 5 entries: the first 5 matching
\* lines, stripped, in narrative order.
C9_FirstFiveInOrder ==
    (extracted.called /\ Cardinality(MatchingLines) > 5)
        => /\ Len(extracted.value) = 5
           /\ \A k \in 1..5 :
                 extracted.value[k] = strip(narrative[KthMatching(k)])

\* six matching lines after a line that does not match
C9_Witness ==
    /\ extracted.called
    /\ Len(narrative) = 7
    /\ Cardinality(MatchingLines) = 6
    /\ 1 \notin MatchingLines

\* C10: _extract_remedies never returns an empty list, and for a narrative
\* without a matching line it returns the 3-item fallback list.
C10_FallbackNeverEmpty ==
    extracted.called
        => /\ extracted.value # << >>
           /\ MatchingLines = {}
                 => /\ Len(extracted.value) = 3
                    /\ extracted.value = FallbackRemedies

\* a narrative of one line that holds a potency and no remedy name
C10_Witness ==
    /\ extracted.called
    /\ Len(narrative) = 1
    /\ MatchingLines = {}
    /\ extracted.value = FallbackRemedies

\* C11: when a step of analyze_patient_case raises, the call ends in the
\* except clause and returns a report with status "error", an empty
\* recommended_remedies list, confidence_score "0%" and an ai_analysis that
\* contains the message of the exception.
C11_FaultGivesErrorReport ==
    call.exc.raised
        => /\ call.step = "ERROR"
           /\ call.result.status = "error"
           /\ call.result.recommended_remedies = << >>
           /\ call.result.confidence_score = <<"0", "%">>
           /\ Contains(call.exc.message, call.result.ai_analysis)

\* the composition step raised, after extraction and retrieval had run
C11_Witness ==
    /\ call.step = "ERROR"
    /\ call.exc.raised
    /\ call.symptoms # << >>
    /\ call.relevant_docs # << >>
    /\ call.analysis_text = << >>
    /\ call.result.status = "error"

\* a report with the five fields, each of its kind
WellFormed(r) ==
    /\ DOMAIN r = {"status", "ai_analysis", "recommended_remedies",
                   "confidence_score", "follow_up_recommendations"}
    /\ r.status \in {"success", "error"}
    /\ r.ai_analysis # << >>
    /\ r.confidence_score \in {Confidence75, Confidence0}
    /\ r.status = "success" => r.recommended_remedies # << >>

\* C12: analyze_patient_case lets no exception through to its caller:
\* whatever the summary is and whatever goes wrong in a step, a call that has
\* been entered ends, and it ends with a returned report that has the five
\* fields.
C12_NeverPropagates ==
    /\ [](~call.propagated /\ (Terminal => WellFormed(call.result)))
    /\ [](call.step \in {"EXTRACT", "RETRIEVE", "COMPOSE", "PARSE_REMEDIES",
                         "PARSE_FOLLOWUPS"}
            => <>Terminal)

\* a summary that is no string made the extraction step raise
C12_Witness ==
    /\ ~summary.is_str
    /\ call.step = "ERROR"
    /\ call.exc.message = NoLowerMessage
    /\ WellFormed(call.result)

\* the extraction step of the call has returned its list
Extracted ==
    call.step \in {"RETRIEVE", "COMPOSE", "PARSE_REMEDIES",
                   "PARSE_FOLLOWUPS", "DONE"}

\* C13: the list _extract_symptoms returns holds a lexicon term exactly when
\* the term occurs in the lowercased text, and holds it once; for "Chronic
\* headaches and fatigue" it holds headache and fatigue and nothing else.
C13_SymptomsExact ==
    Extracted =>
        LET got == call.symptoms
        IN  /\ \A k \in 1..Len(symptom_keywords) :
                  (\E i \in 1..Len(got) : got[i] = symptom_keywords[k])
                      <=> Contains(symptom_keywords[k], lower(summary.text))
            /\ \A i \in 1..Len(got) :
                  \E k \in 1..Len(symptom_keywords) : got[i] = symptom_keywords[k]
            /\ \A i, j \in 1..Len(got) : i # j => got[i] # got[j]
            /\ summary.text = CasePool[1]
                  => {got[i] : i \in 1..Len(got)}
                        = {<<"h","e","a","d","a","c","h","e">>,
                           <<"f","a","t","i","g","u","e">>}

\* a summary whose first and third line are the same, with a term in upper
\* case in between
C13_Witness ==
    /\ Extracted
    /\ summary.text = join(<<"\n">>, <<CasePool[1], CasePool[2], CasePool[1]>>)
    /\ Len(call.symptoms) = 3

\* C14: for the empty text the extraction returns the empty list; retrieval
\* on the empty list builds no search query and returns the one entry "No
\* specific symptoms identified for search"; the report of the call that
\* went on from there has status "success" and carries that entry.
C14_EmptyTextSentinel ==
    /\ (Extracted /\ summary.text = << >>) => call.symptoms = << >>
    /\ (call.step = "COMPOSE" /\ ~call.fault.raised /\ call.symptoms = << >>)
          => /\ call.relevant_docs = <<NoSymptomsDoc>>
             /\ ~call.query.built
    /\ (call.step = "DONE" /\ call.relevant_docs = <<NoSymptomsDoc>>)
          => /\ call.result.status = "success"
             /\ Contains(NoSymptomsDoc, call.result.ai_analysis)

\* the analysis of the empty text has returned
C14_Witness ==
    /\ summary.is_str
    /\ summary.text = << >>
    /\ call.step = "DONE"
    /\ call.symptoms = << >>
    /\ call.relevant_docs = <<NoSymptomsDoc>>
    /\ call.result.status = "success"

\* C15: on an agent whose knowledge base is empty or failed to load,
\* retrieval for a non-empty symptom list returns one placeholder entry and
\* no entry that reports found material.
C15_DegradedRetrieval ==
    ( /\ call.step = "COMPOSE"
      /\ ~call.fault.raised
      /\ kb[call.on] \in {"empty", "failed"}
      /\ call.symptoms # << >> )
        => /\ Len(call.relevant_docs) = 1
           /\ \A i \in 1..Len(call.relevant_docs) :
                 ~Contains(FoundPrefix, call.relevant_docs[i])

C18_ReturnedAfterLoad ==
    /\ (_agent_initialized /\ _agent_instance # None)
          => kb[_agent_instance] \notin {"unloaded", "loading"}
    /\ \A c \in Callers :
          (ret[c].kind = "returned" /\ ret[c].value # None)
             => kb[ret[c].value] \notin {"unloaded", "loading"}

\* the steps in the order of the try block, and what follows each
StepOrder ==
    {<<"IDLE", "EXTRACT">>, <<"EXTRACT", "RETRIEVE">>,
     <<"RETRIEVE", "COMPOSE">>, <<"COMPOSE", "PARSE_REMEDIES">>,
     <<"PARSE_REMEDIES", "PARSE_FOLLOWUPS">>, <<"PARSE_FOLLOWUPS", "DONE">>}

RunningSteps ==
    {"EXTRACT", "RETRIEVE", "COMPOSE", "PARSE_REMEDIES", "PARSE_FOLLOWUPS"}

\* C19: a call goes from each step to the next one of EXTRACT, RETRIEVE,
\* COMPOSE, PARSE_REMEDIES, PARSE_FOLLOWUPS, DONE or to ERROR; a step in which
\* something goes wrong is followed by ERROR; after DONE or ERROR nothing of
\* the call runs (what follows is a new call or a restart).
C19_StepOrder ==
    [][ call'.step # call.step
          => /\ call.step \in RunningSteps
                => \/ <<call.step, call'.step>> \in StepOrder
                   \/ call'.step = "ERROR"
             /\ (call.step \in RunningSteps /\ call'.fault.raised)
                => call'.step = "ERROR"
             /\ call.step \in {"DONE", "ERROR"}
                => call'.step \in {"EXTRACT", "IDLE"}
             /\ call.step = "IDLE" => call'.step = "EXTRACT" ]_vars

\* C20: two calls with the same summary, in neither of which anything went
\* wrong, return the same report.
C20_SameTextSameReport ==
    (call.step = "DONE" /\ call.clean /\ previous.done)
        => call.result = previous.result

\* C23: a call of get_homeopathic_agent that returns normally returns a
\* constructed instance, never None, and the initialized flag is never true
\* while the stored instance is None.
C23_NeverReturnsNone ==
    /\ \A c \in Callers : ret[c].kind = "returned" => ret[c].value # None
    /\ _agent_initialized => _agent_instance # None

\* C24: a report of analyze_patient_case with status "success" has exactly
\* 5 recommended remedies, and they are not the 3-item fallback list.
C24_SuccessHasFiveRemedies ==
    report.result.status = "success"
        => /\ Len(report.result.recommended_remedies) = 5
           /\ report.result.recommended_remedies # FallbackRemedies
           /\ \A i \in 1..Len(FallbackRemedies) :
                 \A j \in 1..Len(report.result.recommended_remedies) :
                    report.result.recommended_remedies[j] # FallbackRemedies[i]

\* a success report for a summary none of whose lines names a remedy with a
\* potency: only the template can have given the remedies
C24_Witness ==
    /\ report.result.status = "success"
    /\ report.input = RemedyPool[3]
    /\ Len(report.result.recommended_remedies) = 5

\* the lines of the analysed summary that hold a potency and a remedy name,
\* stripped, in the order of the summary
PatientRemedyLines ==
    LET matching == SelectSeq(split(report.input, "\n"), IsRemedyLine)
    IN  [i \in 1..Len(matching) |-> strip(matching[i])]

\* the smaller of two numbers
Min(a, b) == IF a < b THEN a ELSE b

\* C25: for a summary with k lines that hold a potency and a remedy name, the
\* remedy list of a success report is the first min(k, 5) of those lines
\* followed by the first 5 - min(k, 5) remedy lines of the template; with
\* k = 0 it is the five template lines in template order.
C25_PatientLinesFirst ==
    report.result.status = "success"
        => LET k == Min(Len(PatientRemedyLines), 5)
           IN  /\ report.result.recommended_remedies =
                     SubSeq(PatientRemedyLines, 1, k)
                        \o SubSeq(TemplateRemedyLines, 1, 5 - k)
               /\ Len(PatientRemedyLines) = 0
                     => report.result.recommended_remedies =
                           TemplateRemedyLines

\* a success report for a summary of six lines, all of them naming a remedy
\* with a potency, of both kinds: no template line is left in the list
C25_Witness ==
    /\ report.result.status = "success"
    /\ Len(PatientRemedyLines) = 6
    /\ PatientRemedyLines[1] # PatientRemedyLines[2]
    /\ \A j \in 1..5 : \A i \in 1..5 :
          report.result.recommended_remedies[j] # TemplateRemedyLines[i]

\* C22: when the startup handler's get_homeopathic_agent call raises, the
\* HTTP layer starts serving with global_agent = None; a request that finds
\* global_agent = None calls get_homeopathic_agent; once global_agent holds
\* an agent it keeps that agent, requests are answered by it, and nothing is
\* constructed or loaded any more.
C22_StartupFailureRetried ==
    /\ [][ (server # "serving" /\ server' = "serving"
               /\ ret'[1].kind = "raised")
              => global_agent' = None ]_vars
    /\ [][ \A c \in Callers :
              (server = "serving" /\ global_agent = None /\ pc[c] = "idle"
                  /\ (served'[c] # served[c] \/ pc'[c] # pc[c]))
                 => \/ pc'[c] = "load" /\ constructed' = constructed + 1
                    \/ /\ served'[c].attempted
                       /\ ret'[c].kind \in {"raised", "returned"}
                       /\ ret'[c].kind = "returned"
                             => global_agent' = ret'[c].value ]_vars
    /\ [][ (server = "serving" /\ global_agent # None)
              => /\ global_agent' = global_agent
                 /\ constructed' = constructed
                 /\ loads' = loads
                 /\ \A c \in Callers :
                       served'[c] # served[c]
                          => served'[c].agent = global_agent ]_vars

\* the startup call raised, the request of caller 1 initialized the agent,
\* and a later request of caller 2 was answered by that agent without
\* another initialization
C22_Witness ==
    /\ server = "serving"
    /\ global_agent # None
    /\ constructed = 1
    /\ loads = 1
    /\ served[1].attempted
    /\ served[1].agent = global_agent
    /\ ~served[2].attempted
    /\ served[2].agent = global_agent
    /\ served[2].result.status = "success"

\* the report analyze_patient_case returns for summary sm when it is the
\* only call running
AloneReport(sm) ==
    IF sm.is_str
    THEN analyze_patient_case(sm.text, extract_symptoms_in(hash_seed, sm.text),
                              NoFault)
    ELSE analyze_except(NoLowerMessage).result

\* C21: the steps of analyze_patient_case change neither the singleton
\* reference, the initialized flag nor the knowledge base of any instance,
\* and every call that runs interleaved with other calls on the shared
\* instance returns the report it returns when run alone.
C21_CallsDoNotInterfere ==
    /\ [][ calls' # calls
              => UNCHANGED <<_agent_instance, _agent_initialized, kb,
                             constructed, loads, global_agent>> ]_vars
    /\ [](\A c \in Callers :
             /\ calls[c].step \in {"DONE", "ERROR"}
                   => /\ calls[c].result = AloneReport(inputs[c])
                      /\ ~calls[c].propagated
             /\ calls[c].step # "IDLE" => calls[c].on = _agent_instance)

\* caller 1's call has returned its report while caller 2's call, on the
\* same agent and with another summary naming other symptoms, is between
\* two of its steps
C21_Witness ==
    /\ calls[1].step = "DONE"
    /\ calls[2].step = "PARSE_REMEDIES"
    /\ calls[1].on = calls[2].on
    /\ inputs[1] # inputs[2]
    /\ calls[1].symptoms # calls[2].symptoms
    /\ calls[1].result.status = "success"

====
